---- MODULE Spec2Model ----
(***************************************************************************)
(* Book CRUD service (src/main.go, src/unnamed/part_000): process start-up,*)
(* the gorilla/mux route table and the five gorm-backed request handlers.  *)
(*                                                                         *)
(* The books table is the function rows: id -> stored Book.  gorm.Model    *)
(* gives every Book the columns ID and DeletedAt (soft delete); CreatedAt  *)
(* and UpdatedAt are written by the ORM and read by nothing, and are left  *)
(* out.  A gorm.DeletedAt is modelled by its Valid flag.  deleted200 is a  *)
(* history variable: the ids for which DeleteBook has answered 200.        *)
(***************************************************************************)
EXTENDS Integers, FiniteSets, Sequences, TLC

VARIABLES main, rows, resp, inflight, deleted200

vars == <<main, rows, resp, inflight, deleted200>>

(***************************************************************************)
(* Bounds of the model.                                                    *)
(***************************************************************************)
\* ids 1..MaxId are the primary keys the table can hold
MaxId == 2
\* number of requests the HTTP server runs at the same time (SpecConc)
MaxWorkers == 2

Ids == 1..MaxId
Workers == 1..MaxWorkers

(***************************************************************************)
(* type Book struct { gorm.Model; BookName; Author; Price }                *)
(***************************************************************************)
Fields == {"book_name", "author", "price"}

FieldValues(f) ==
    CASE f = "book_name" -> {"", "a"}
      [] f = "author"    -> {"", "x"}
      [] f = "price"     -> {0, 5}

\* the Go zero value of a Book field
ZeroValue(f) == IF f = "price" THEN 0 ELSE ""

Book == [ID : 0..MaxId, DeletedAt : BOOLEAN,
         book_name : FieldValues("book_name"),
         author : FieldValues("author"),
         price : FieldValues("price")]

\* var book Book
ZeroBook == [ID |-> 0, DeletedAt |-> FALSE,
             book_name |-> "", author |-> "", price |-> 0]

(***************************************************************************)
(* Request bodies.  A body is undecodable (ok = FALSE) or a JSON object    *)
(* holding the keys in has.  encoding/json matches keys to the promoted    *)
(* fields of gorm.Model too, so "ID" and "DeletedAt" are keys like the     *)
(* three tagged ones.  A key that is absent holds the zero value here and  *)
(* is never read.  "ID": 0 and "DeletedAt": null decode to the zero value  *)
(* and act as an absent key, so they are not enumerated.                   *)
(***************************************************************************)
Keys == Fields \cup {"ID", "DeletedAt"}

BadBody == [ok |-> FALSE, has |-> {}, ID |-> 0, DeletedAt |-> FALSE,
            book_name |-> "", author |-> "", price |-> 0]

\* the JSON object {}
EmptyObject == [BadBody EXCEPT !.ok = TRUE]

\* The bodies requests are drawn from: every set of Book keys, the keys
\* present holding all the zero value or all a non-zero value; and, with
\* "ID" or "DeletedAt" (one of the two) among the keys, the Book keys all
\* present with non-zero values.
ObjectBodies ==
    {b \in [ok : {TRUE}, has : SUBSET Keys, ID : 0..MaxId, DeletedAt : BOOLEAN,
            book_name : FieldValues("book_name"),
            author : FieldValues("author"),
            price : FieldValues("price")] :
        /\ ("ID" \in b.has) <=> (b.ID # 0)
        /\ ("DeletedAt" \in b.has) <=> b.DeletedAt
        /\ \A f \in Fields : f \notin b.has => b[f] = ZeroValue(f)
        /\ \/ \A f \in b.has \cap Fields : b[f] = ZeroValue(f)
           \/ \A f \in b.has \cap Fields : b[f] # ZeroValue(f)
        /\ \/ b.has \subseteq Fields
           \/ /\ \A f \in Fields : f \in b.has /\ b[f] # ZeroValue(f)
              /\ ~("ID" \in b.has /\ "DeletedAt" \in b.has)}

Bodies == {b : b \in ObjectBodies \cup {BadBody}}

(***************************************************************************)
(* Path segments a client can put after /book/.                            *)
(***************************************************************************)
DigitStr == <<"1", "2", "3", "4", "5", "6">>
NumSegs == {DigitStr[i] : i \in Ids}
\* all digits, but past the range of int
BigSeg == "99999999999999999999"
AlphaSeg == "abc"
PathSegs == NumSegs \cup {BigSeg, AlphaSeg}

\* the route pattern {id:[0-9]+}
RouteMatches(seg) == seg \in NumSegs \cup {BigSeg}

\* strconv.Atoi(params["id"])
Atoi(seg) ==
    IF seg \in NumSegs
    THEN [err |-> FALSE, n |-> CHOOSE i \in Ids : DigitStr[i] = seg]
    ELSE [err |-> TRUE, n |-> 0]

(***************************************************************************)
(* The ORM calls the handlers make, on the table rows.  fail is the        *)
(* database failing the statement (connection lost, timeout, missing       *)
(* table): an input of every call.                                         *)
(***************************************************************************)
\* the default scope of a model with DeletedAt: WHERE deleted_at IS NULL
Live(t, id) == id \in DOMAIN t /\ ~t[id].DeletedAt

\* A row as the table keeps it.  Every statement of the program that reads
\* a row is scoped to deleted_at IS NULL, and the one statement that writes
\* a soft-deleted row (the upsert of Save) writes all its columns: the other
\* columns of a soft-deleted row are read by nothing, and are kept blank.
Stored(id, book) ==
    IF book.DeletedAt THEN [ZeroBook EXCEPT !.ID = id, !.DeletedAt = TRUE]
    ELSE [book EXCEPT !.ID = id]

\* the table with row id written
Put(t, id, book) ==
    [i \in DOMAIN t \cup {id} |-> IF i = id THEN Stored(id, book) ELSE t[i]]

\* the IDENTITY column: the next generated key follows the largest key ever
\* inserted (rows are never removed: DeleteBook is a soft delete)
NextIdentity(t) ==
    IF DOMAIN t = {} THEN 1
    ELSE 1 + CHOOSE m \in DOMAIN t : \A i \in DOMAIN t : i <= m

\* DB.First(&book, id)
First(t, id, fail) ==
    IF fail THEN [err |-> "db", book |-> ZeroBook]
    ELSE IF Live(t, id) THEN [err |-> "nil", book |-> t[id]]
    ELSE [err |-> "ErrRecordNotFound", book |-> ZeroBook]

\* DB.Find(&books)
Find(t, fail) ==
    IF fail THEN [err |-> "db", books |-> {}]
    ELSE [err |-> "nil", books |-> {t[i] : i \in {j \in DOMAIN t : Live(t, j)}}]

\* DB.Create(&book): a zero ID takes the next identity value; a non-zero ID
\* is inserted as given (the driver sets IDENTITY_INSERT ON) and fails on a
\* key the table already holds, soft-deleted rows included
Create(t, book, fail) ==
    LET id == IF book.ID = 0 THEN NextIdentity(t) ELSE book.ID
    IN  IF fail \/ id \in DOMAIN t
        THEN [err |-> "db", rows |-> t, book |-> book]
        ELSE [err |-> "nil", rows |-> Put(t, id, book),
              book |-> [book EXCEPT !.ID = id]]

\* DB.Save(&book) with a non-zero ID: UPDATE of every column WHERE id = ID
\* AND deleted_at IS NULL.  When the UPDATE matches no row, ORM releases
\* with the upsert fallback (upsert = TRUE) follow it with an
\* INSERT .. ON CONFLICT UPDATE ALL (a MERGE on the key), which writes the
\* row whether or not it is soft-deleted; older releases stop there.
Save(t, book, fail, upsert) ==
    IF fail THEN [err |-> "db", rows |-> t, book |-> book]
    ELSE IF Live(t, book.ID) \/ upsert
    THEN [err |-> "nil", rows |-> Put(t, book.ID, book), book |-> book]
    ELSE [err |-> "nil", rows |-> t, book |-> book]

\* a delete that addresses another row than the one that was read
DeleteOtherRow(t, book, id, fail) ==
    IF fail THEN [err |-> "db", rows |-> t] ELSE [err |-> "nil", rows |-> t]

\* DB.Delete(&book, id): soft delete, UPDATE SET deleted_at = now WHERE
\* id = book.ID AND id = id AND deleted_at IS NULL
Delete(t, book, id, fail) ==
    IF fail THEN [err |-> "db", rows |-> t]
    ELSE IF book.ID = id /\ Live(t, id)
    THEN [err |-> "nil", rows |-> Put(t, id, [book EXCEPT !.DeletedAt = TRUE])]
    ELSE [err |-> "nil", rows |-> t]

\* the decoder's walk over the keys of a JSON object: the value of key k is
\* stored into the field of book that k names, and no other field is touched
Decoded(book, body) ==
    LET Field(k) == IF k \in body.has THEN body[k] ELSE book[k]
    IN  [ID |-> Field("ID"), DeletedAt |-> Field("DeletedAt"),
         book_name |-> Field("book_name"), author |-> Field("author"),
         price |-> Field("price")]

\* a decode that starts from a fresh Book: what a full replace would do
DecodeReplace(book, body) ==
    IF ~body.ok THEN [err |-> TRUE, book |-> book]
    ELSE [err |-> FALSE, book |-> Decoded(ZeroBook, body)]

\* json.NewDecoder(r.Body).Decode(&book): every key of the body is stored
\* into its field of book; a field whose key is absent is left as it is
DecodeInto(book, body) ==
    IF ~body.ok THEN [err |-> TRUE, book |-> book]
    ELSE [err |-> FALSE, book |-> Decoded(book, body)]

(***************************************************************************)
(* Responses.  resp is the response written last: the request it answers   *)
(* (req, and path for the routes with an id), the handler that wrote it,   *)
(* the status, and the JSON body (book, or books for the list).  dbErr     *)
(* records that a database call of the handler failed, and omitted which   *)
(* Book fields the request body of a served update left out.               *)
(***************************************************************************)
Response(req, path, handler, status, dbErr, book, books, omitted) ==
    [req |-> req, path |-> path, handler |-> handler, status |-> status,
     dbErr |-> dbErr, book |-> book, books |-> books, omitted |-> omitted]

NoResponse == Response("", "", "", 0, FALSE, ZeroBook, {}, {})

\* http.Error(w, msg, code): a text/plain body
HttpError(req, path, handler, status, dbErr) ==
    Response(req, path, handler, status, dbErr, ZeroBook, {}, {})

StatusOK == 200
StatusBadRequest == 400
StatusNotFound == 404
StatusInternalServerError == 500

(***************************************************************************)
(* The handlers, as functions of the database handle, the table and the    *)
(* request.  failAt numbers the database call of the handler that fails    *)
(* (0: none).  Each handler gives the table and the response it leaves.    *)
(***************************************************************************)
\* func GetBooks
GetBooksH(db, t, failAt) ==
    LET req == "GET /books"
        r == Find(t, failAt = 1)
    IN  IF db = "nil"
        THEN HttpError(req, "", "GetBooks", StatusInternalServerError, FALSE)
        ELSE IF r.err # "nil"
        THEN HttpError(req, "", "GetBooks", StatusInternalServerError, TRUE)
        ELSE Response(req, "", "GetBooks", StatusOK, FALSE, ZeroBook, r.books, {})

\* func GetBook
GetBookH(db, t, seg, failAt) ==
    LET req == "GET /book/{id}"
        a == Atoi(seg)
        r == First(t, a.n, failAt = 1)
    IN  IF db = "nil"
        THEN HttpError(req, seg, "GetBook", StatusInternalServerError, FALSE)
        ELSE IF a.err
        THEN HttpError(req, seg, "GetBook", StatusBadRequest, FALSE)
        ELSE IF r.err # "nil"
        THEN HttpError(req, seg, "GetBook", StatusNotFound, r.err = "db")
        ELSE Response(req, seg, "GetBook", StatusOK, FALSE, r.book, {}, {})

\* func CreateBook
CreateBookH(db, t, body, failAt) ==
    LET req == "POST /books"
        d == DecodeInto(ZeroBook, body)
        c == Create(t, d.book, failAt = 1)
    IN  IF db = "nil"
        THEN [rows |-> t,
              resp |-> HttpError(req, "", "CreateBook", StatusInternalServerError, FALSE)]
        ELSE IF d.err
        THEN [rows |-> t,
              resp |-> HttpError(req, "", "CreateBook", StatusBadRequest, FALSE)]
        ELSE IF c.err # "nil"
        THEN [rows |-> t,
              resp |-> HttpError(req, "", "CreateBook", StatusInternalServerError, TRUE)]
        ELSE [rows |-> c.rows,
              resp |-> Response(req, "", "CreateBook", StatusOK, FALSE, c.book, {}, {})]

\* func UpdateBook up to the decoded body: the nil check, Atoi, DB.First and
\* Decode.  done: a response was written; else book is the decoded Book.
UpdateBookRead(db, t, seg, body, failAt) ==
    LET req == "PUT /book/{id}"
        a == Atoi(seg)
        r == First(t, a.n, failAt = 1)
        d == DecodeInto(r.book, body)
        Answer(status, dbErr) ==
            [done |-> TRUE, id |-> 0, book |-> ZeroBook,
             resp |-> HttpError(req, seg, "UpdateBook", status, dbErr)]
    IN  IF db = "nil" THEN Answer(StatusInternalServerError, FALSE)
        ELSE IF a.err THEN Answer(StatusBadRequest, FALSE)
        ELSE IF r.err # "nil" THEN Answer(StatusNotFound, r.err = "db")
        ELSE IF d.err THEN Answer(StatusBadRequest, FALSE)
        ELSE [done |-> FALSE, id |-> a.n, book |-> d.book, resp |-> NoResponse]

\* func UpdateBook from book.ID = uint(id): DB.Save and the response
UpdateBookSave(t, id, book, omitted, failAt, upsert) ==
    LET req == "PUT /book/{id}"
        seg == DigitStr[id]
        s == Save(t, [book EXCEPT !.ID = id], failAt = 2, upsert)
    IN  IF s.err # "nil"
        THEN [rows |-> t,
              resp |-> HttpError(req, seg, "UpdateBook", StatusInternalServerError, TRUE)]
        ELSE [rows |-> s.rows,
              resp |-> Response(req, seg, "UpdateBook", StatusOK, FALSE, s.book, {},
                                omitted)]

\* func DeleteBook up to DB.First
DeleteBookRead(db, t, seg, failAt) ==
    LET req == "DELETE /book/{id}"
        a == Atoi(seg)
        r == First(t, a.n, failAt = 1)
        Answer(status, dbErr) ==
            [done |-> TRUE, id |-> 0, book |-> ZeroBook,
             resp |-> HttpError(req, seg, "DeleteBook", status, dbErr)]
    IN  IF db = "nil" THEN Answer(StatusInternalServerError, FALSE)
        ELSE IF a.err THEN Answer(StatusBadRequest, FALSE)
        ELSE IF r.err # "nil" THEN Answer(StatusNotFound, r.err = "db")
        ELSE [done |-> FALSE, id |-> a.n, book |-> r.book, resp |-> NoResponse]

\* func DeleteBook from DB.Delete: the soft delete and the response
DeleteBookExec(t, id, book, failAt) ==
    LET req == "DELETE /book/{id}"
        seg == DigitStr[id]
        x == Delete(t, book, id, failAt = 2)
    IN  IF x.err # "nil"
        THEN [rows |-> t,
              resp |-> HttpError(req, seg, "DeleteBook", StatusInternalServerError, TRUE)]
        ELSE [rows |-> x.rows,
              resp |-> Response(req, seg, "DeleteBook", StatusOK, FALSE, ZeroBook, {}, {})]

\* func UpdateBook, from the outcome r of its first part
UpdateBookFrom(r, t, omitted, failAt, upsert) ==
    IF r.done THEN [rows |-> t, resp |-> r.resp]
    ELSE UpdateBookSave(t, r.id, r.book, omitted, failAt, upsert)

\* func UpdateBook
UpdateBookH(db, t, seg, body, failAt, upsert) ==
    UpdateBookFrom(UpdateBookRead(db, t, seg, body, failAt), t,
                   Fields \ body.has, failAt, upsert)

\* func DeleteBook, from the outcome r of its first part
DeleteBookFrom(r, t, failAt) ==
    IF r.done THEN [rows |-> t, resp |-> r.resp]
    ELSE DeleteBookExec(t, r.id, r.book, failAt)

\* func DeleteBook
DeleteBookH(db, t, seg, failAt) ==
    DeleteBookFrom(DeleteBookRead(db, t, seg, failAt), t, failAt)

(***************************************************************************)
(* func main and func initDB: the steps from flag.Parse to ListenAndServe. *)
(* main.pc is the call main is about to make.                              *)
(***************************************************************************)
\* an error that is logged and not acted on
FatalSkipped(err, next) == next

\* if err != nil { log.Fatalf(...) } (panic in the variant without a vault)
Fatal(err, next) == IF err THEN "exited" ELSE next

MainStart == [pc |-> "flag.Parse", initDB |-> FALSE, DB |-> "nil",
              secretCalls |-> 0, openCalls |-> 0, migrateCalls |-> 0]

\* main at ListenAndServe, started without -initDB
MainServing == [pc |-> "serving", initDB |-> FALSE, DB |-> "open",
                secretCalls |-> 1, openCalls |-> 1, migrateCalls |-> 0]

Idle == [pc |-> "idle", id |-> 0, book |-> ZeroBook, omitted |-> {}]

InitMain ==
    /\ main = MainStart
    /\ rows = [i \in {} |-> ZeroBook]
    /\ resp = NoResponse
    /\ inflight = [w \in Workers |-> Idle]
    /\ deleted200 = {}

\* the server listening on an empty table
Init ==
    /\ main = MainServing
    /\ rows = [i \in {} |-> ZeroBook]
    /\ resp = NoResponse
    /\ inflight = [w \in Workers |-> Idle]
    /\ deleted200 = {}

\* flag.BoolVar(&initDB, "initDB", false, ...); flag.Parse()
ParseFlags(flag) ==
    /\ main.pc = "flag.Parse"
    /\ main' = [main EXCEPT !.pc = "NewDefaultAzureCredential", !.initDB = flag]
    /\ UNCHANGED <<rows, resp, inflight, deleted200>>

\* azidentity.NewDefaultAzureCredential(nil)
NewCredential(err) ==
    /\ main.pc = "NewDefaultAzureCredential"
    /\ main' = [main EXCEPT !.pc = Fatal(err, "NewClient")]
    /\ UNCHANGED <<rows, resp, inflight, deleted200>>

\* secrets.NewClient(vault, cred, nil)
NewClient(err) ==
    /\ main.pc = "NewClient"
    /\ main' = [main EXCEPT !.pc = Fatal(err, "GetSecret")]
    /\ UNCHANGED <<rows, resp, inflight, deleted200>>

\* client.GetSecret(ctx, "sqlkeysecretdb", nil)
GetSecret(err) ==
    /\ main.pc = "GetSecret"
    /\ main' = [main EXCEPT !.pc = Fatal(err, "gorm.Open"),
                            !.secretCalls = @ + 1]
    /\ UNCHANGED <<rows, resp, inflight, deleted200>>

\* DB, err = gorm.Open(sqlserver.Open(dsn), &gorm.Config{}): the handle
\* returned with an error is not nil, and not connected
GormOpen(err) ==
    /\ main.pc = "gorm.Open"
    /\ main' = [main EXCEPT !.pc = Fatal(err, "AutoMigrate"),
                            !.DB = IF err THEN "failed" ELSE "open",
                            !.openCalls = @ + 1]
    /\ UNCHANGED <<rows, resp, inflight, deleted200>>

\* if initDB { DB.AutoMigrate(&Book{}) }: the result is not looked at
AutoMigrate ==
    /\ main.pc = "AutoMigrate"
    /\ main' = [main EXCEPT !.pc = "ListenAndServe",
                            !.migrateCalls = IF main.initDB THEN @ + 1 ELSE @]
    /\ UNCHANGED <<rows, resp, inflight, deleted200>>

\* log.Fatal(http.ListenAndServe(":"+port, router)): serving, unless the
\* listener cannot be opened
ListenAndServe(err) ==
    /\ main.pc = "ListenAndServe"
    /\ main' = [main EXCEPT !.pc = IF err THEN "exited" ELSE "serving"]
    /\ UNCHANGED <<rows, resp, inflight, deleted200>>

Startup ==
    \/ \E flag \in BOOLEAN : ParseFlags(flag)
    \/ \E err \in BOOLEAN : NewCredential(err)
    \/ \E err \in BOOLEAN : NewClient(err)
    \/ \E err \in BOOLEAN : GetSecret(err)
    \/ \E err \in BOOLEAN : GormOpen(err)
    \/ AutoMigrate
    \/ \E err \in BOOLEAN : ListenAndServe(err)

(***************************************************************************)
(* Requests, one at a time: the router dispatches a request to its handler *)
(* and the handler runs to its response.                                   *)
(***************************************************************************)
Serving == main.pc = "serving"
AllIdle == \A w \in Workers : inflight[w] = Idle

\* the handler's outcome h takes effect
Answer(h) == rows' = h.rows /\ resp' = h.resp

\* the ids DeleteBook has answered 200 for, after the response r to path seg
Deleted200After(r, seg) ==
    IF r.handler = "DeleteBook" /\ r.status = StatusOK
    THEN deleted200 \cup {Atoi(seg).n} ELSE deleted200

\* router.HandleFunc("/books", GetBooks).Methods("GET")
GetBooks(failAt) ==
    /\ Serving
    /\ resp' = GetBooksH(main.DB, rows, failAt)
    /\ UNCHANGED <<main, rows, inflight, deleted200>>

\* router.HandleFunc("/book/{id:[0-9]+}", GetBook).Methods("GET")
GetBook(seg, failAt) ==
    /\ Serving
    /\ RouteMatches(seg)
    /\ resp' = GetBookH(main.DB, rows, seg, failAt)
    /\ UNCHANGED <<main, rows, inflight, deleted200>>

\* the identity column stays within the ids of the model
InsertFits(body, failAt) ==
    (body.ok /\ body.ID = 0 /\ failAt = 0) => NextIdentity(rows) <= MaxId

\* router.HandleFunc("/books", CreateBook).Methods("POST")
CreateBook(body, failAt) ==
    /\ Serving
    /\ InsertFits(body, failAt)
    /\ Answer(CreateBookH(main.DB, rows, body, failAt))
    /\ UNCHANGED <<main, inflight, deleted200>>

\* router.HandleFunc("/book/{id:[0-9]+}", UpdateBook).Methods("PUT").  No
\* statement runs between First and Save here, so the UPDATE of Save
\* matches the row First read and the upsert fallback is not reached.
UpdateBook(seg, body, failAt) ==
    /\ Serving
    /\ RouteMatches(seg)
    /\ Answer(UpdateBookH(main.DB, rows, seg, body, failAt, TRUE))
    /\ UNCHANGED <<main, inflight, deleted200>>

\* router.HandleFunc("/book/{id:[0-9]+}", DeleteBook).Methods("DELETE")
DeleteBook(seg, failAt) ==
    /\ Serving
    /\ RouteMatches(seg)
    /\ Answer(DeleteBookH(main.DB, rows, seg, failAt))
    /\ deleted200' = Deleted200After(resp', seg)
    /\ UNCHANGED <<main, inflight>>

\* a path no route matches: the router's NotFoundHandler answers, and no
\* handler of this program runs
IdRequests == {"GET /book/{id}", "PUT /book/{id}", "DELETE /book/{id}"}

NotFoundHandler(req, seg) ==
    /\ Serving
    /\ ~RouteMatches(seg)
    /\ resp' = HttpError(req, seg, "NotFoundHandler", StatusNotFound, FALSE)
    /\ UNCHANGED <<main, rows, inflight, deleted200>>

\* the bodies an update of path seg is drawn with: those of B when the
\* handler gets to Decode, and one body when it answers before it
UpdateBodies(seg, B) ==
    IF Live(rows, Atoi(seg).n) THEN B ELSE {EmptyObject}

\* the database calls that may fail in a request on path seg, of a handler
\* that makes n calls: a failure is drawn for the requests on /book/1, since
\* no handler's answer to it depends on which row the path names
FailAts(seg, n) == IF seg = DigitStr[1] THEN 0..n ELSE {0}

\* the requests of a server that runs one request at a time, with bodies
\* drawn from B; a failing database call is drawn with one body, since no
\* response to it depends on the body
Requests(B) ==
    \/ \E failAt \in 0..1 : AllIdle /\ GetBooks(failAt)
    \/ \E seg \in PathSegs : \E failAt \in FailAts(seg, 1) :
          AllIdle /\ GetBook(seg, failAt)
    \/ \E body \in B : AllIdle /\ CreateBook(body, 0)
    \/ AllIdle /\ CreateBook(EmptyObject, 1)
    \/ \E seg \in PathSegs : \E body \in UpdateBodies(seg, B) :
          AllIdle /\ UpdateBook(seg, body, 0)
    \/ \E seg \in PathSegs : \E failAt \in FailAts(seg, 2) \ {0} :
          AllIdle /\ UpdateBook(seg, EmptyObject, failAt)
    \/ \E seg \in PathSegs : \E failAt \in FailAts(seg, 2) :
          AllIdle /\ DeleteBook(seg, failAt)
    \/ \E req \in IdRequests, seg \in PathSegs :
          AllIdle /\ NotFoundHandler(req, seg)

Next == Requests(Bodies)

Spec == Init /\ [][Next]_vars

\* the process from its start, serving requests with and without a body
\* that decodes
NextMain == Startup \/ Requests({EmptyObject, BadBody})

SpecMain == InitMain /\ [][NextMain]_vars

(***************************************************************************)
(* Requests in parallel.  net/http runs every request on its own           *)
(* goroutine and the handlers hold no lock and open no transaction, so     *)
(* the two database calls of UpdateBook and of DeleteBook are two steps,   *)
(* and the calls of other requests can run between them.  inflight[w] is   *)
(* the request goroutine w has read the row for and not yet written.       *)
(***************************************************************************)
\* UpdateBook up to Decode, on goroutine w
BeginUpdate(w, seg, body, failAt) ==
    /\ Serving
    /\ inflight[w] = Idle
    /\ RouteMatches(seg)
    /\ \E r \in {UpdateBookRead(main.DB, rows, seg, body, failAt)} :
          IF r.done
          THEN resp' = r.resp /\ inflight' = inflight
          ELSE /\ resp' = resp
               /\ inflight' = [inflight EXCEPT ![w] =
                                  [pc |-> "Save", id |-> r.id, book |-> r.book,
                                   omitted |-> Fields \ body.has]]
    /\ UNCHANGED <<main, rows, deleted200>>

\* UpdateBook from book.ID = uint(id), on goroutine w
EndUpdate(w, failAt, upsert) ==
    /\ Serving
    /\ inflight[w].pc = "Save"
    /\ Answer(UpdateBookSave(rows, inflight[w].id, inflight[w].book,
                             inflight[w].omitted, failAt, upsert))
    /\ inflight' = [inflight EXCEPT ![w] = Idle]
    /\ UNCHANGED <<main, deleted200>>

\* DeleteBook up to DB.First, on goroutine w
BeginDelete(w, seg, failAt) ==
    /\ Serving
    /\ inflight[w] = Idle
    /\ RouteMatches(seg)
    /\ \E r \in {DeleteBookRead(main.DB, rows, seg, failAt)} :
          IF r.done
          THEN resp' = r.resp /\ inflight' = inflight
          ELSE /\ resp' = resp
               /\ inflight' = [inflight EXCEPT ![w] =
                                  [pc |-> "Delete", id |-> r.id, book |-> r.book,
                                   omitted |-> {}]]
    /\ UNCHANGED <<main, rows, deleted200>>

\* DeleteBook from DB.Delete, on goroutine w
EndDelete(w, failAt) ==
    /\ Serving
    /\ inflight[w].pc = "Delete"
    /\ Answer(DeleteBookExec(rows, inflight[w].id, inflight[w].book, failAt))
    /\ deleted200' = Deleted200After(resp', DigitStr[inflight[w].id])
    /\ inflight' = [inflight EXCEPT ![w] = Idle]
    /\ UNCHANGED main

\* the bodies of the parallel requests: the JSON objects with no key or
\* with the key book_name
ConcBodies == {b \in Bodies : b.ok /\ b.has \subseteq {"book_name"}}

SomeIdle == \E w \in Workers : inflight[w] = Idle

NextConc ==
    \/ \E seg \in NumSegs : SomeIdle /\ GetBook(seg, 0)
    \/ \E body \in ConcBodies : SomeIdle /\ CreateBook(body, 0)
    \/ \E w \in Workers, seg \in NumSegs, body \in ConcBodies :
          BeginUpdate(w, seg, body, 0)
    \/ \E w \in Workers, failAt \in {0, 2}, upsert \in BOOLEAN :
          EndUpdate(w, failAt, upsert)
    \/ \E w \in Workers, seg \in NumSegs : BeginDelete(w, seg, 0)
    \/ \E w \in Workers, failAt \in {0, 2} : EndDelete(w, failAt)

SpecConc == Init /\ [][NextConc]_vars

(***************************************************************************)
(* The claims.                                                             *)
(***************************************************************************)
\* the id a response's path names (0 when the path is no id)
PathId(r) == Atoi(r.path).n

Served(r, handler) == r.handler = handler /\ r.status = StatusOK

\* C1 as stated: after a served PUT /book/X whose body omits a Book field,
\* the returned Book and the stored row X hold the zero value for that field
C1_OmittedFieldsAreZeroed ==
    [][Served(resp', "UpdateBook") =>
          \A f \in resp'.omitted :
             /\ resp'.book[f] = ZeroValue(f)
             /\ rows'[PathId(resp')][f] = ZeroValue(f)]_vars

\* C1 amended: after a served PUT /book/X whose body omits a Book field, the
\* returned Book holds for that field the value row X had before the update,
\* and so does row X as long as it is visible
C1_OmittedFieldsAreKept ==
    [][Served(resp', "UpdateBook") =>
          \A f \in resp'.omitted :
             /\ resp'.book[f] = rows[PathId(resp')][f]
             /\ Live(rows', PathId(resp')) =>
                   rows'[PathId(resp')][f] = rows[PathId(resp')][f]]_vars

\* an update that left out a field has been served, and the row and the
\* returned Book still hold a non-zero value for that field
C1_Witness ==
    /\ Served(resp, "UpdateBook")
    /\ Live(rows, PathId(resp))
    /\ \E f \in resp.omitted :
          /\ resp.book[f] # ZeroValue(f)
          /\ rows[PathId(resp)][f] = resp.book[f]

\* C2: the id of the Book a served POST /books stores is the one the server
\* generates (the next identity value), whatever id the body carries, and it
\* is the id of no row the table held before
C2_IdIsServerGenerated ==
    [][Served(resp', "CreateBook") =>
          /\ resp'.book.ID = NextIdentity(rows)
          /\ resp'.book.ID \notin DOMAIN rows
          /\ resp'.book.ID \in DOMAIN rows']_vars

\* C3: a GetBook of X that follows a served UpdateBook of X returns the
\* values the update sent, with id X; and the update writes no other row
C3_UpdateThenGet ==
    [][/\ (/\ Served(resp, "UpdateBook")
           /\ resp'.handler = "GetBook" /\ resp'.path = resp.path
           /\ ~resp'.dbErr)
          => /\ resp'.status = StatusOK
             /\ resp'.book.ID = PathId(resp)
             /\ \A f \in Fields \ resp.omitted : resp'.book[f] = resp.book[f]
       /\ Served(resp', "UpdateBook")
          => /\ DOMAIN rows' = DOMAIN rows
             /\ \A i \in DOMAIN rows \ {PathId(resp')} : rows'[i] = rows[i]
             /\ resp'.book.ID = PathId(resp')]_vars

\* C4: a request for /book/<id> with a non-numeric id is answered 400
C4_NonNumericIdIs400 ==
    (resp.req \in IdRequests /\ resp.path = AlphaSeg)
        => resp.status = StatusBadRequest

\* C5: a response to a request in which a database call failed has status
\* 500, a failed DB.First included
C5_DatabaseFailureIs500 ==
    resp.dbErr => resp.status = StatusInternalServerError

C7_CreateThenGet ==
    [][/\ \A body \in Bodies :
             (AllIdle /\ CreateBook(body, 0) /\ Served(resp', "CreateBook"))
             => \A f \in Fields : resp'.book[f] = body[f]
       /\ (/\ Served(resp, "CreateBook")
           /\ resp'.handler = "GetBook" /\ PathId(resp') = resp.book.ID
           /\ ~resp'.dbErr)
          => /\ resp'.status = StatusOK
             /\ \A f \in Fields : resp'.book[f] = resp.book[f]]_vars

\* C8: a served GetBooks returns exactly the rows that are not deleted; and
\* while DeleteBook has deleted nothing, it returns every row a CreateBook
\* has stored (the table holds no other rows) and so at least as many
C8_ListHoldsEveryCreatedBook ==
    Served(resp, "GetBooks") =>
        /\ resp.books = {rows[i] : i \in {j \in DOMAIN rows : Live(rows, j)}}
        /\ deleted200 = {} =>
              /\ \A i \in DOMAIN rows : \E b \in resp.books : b.ID = i
              /\ Cardinality(resp.books) >= Cardinality(DOMAIN rows)

\* C9: the secret is fetched, the database opened and the schema migrated
\* at most once each; a failed fetch or open ends the process, which takes
\* no further step; the server listens only with an open database handle;
\* a request is answered only by a listening server whose handle is open;
\* and the schema is migrated only by main, before it listens, with the
\* initDB flag set
C9_StartupOrder ==
    [][/\ main.pc # "exited"
       /\ main'.secretCalls <= 1 /\ main'.openCalls <= 1
       /\ main'.migrateCalls <= 1
       /\ GetSecret(TRUE) => main'.pc = "exited"
       /\ GormOpen(TRUE) => main'.pc = "exited"
       /\ main'.pc = "serving" => main'.DB = "open"
       /\ resp' # resp => (main.pc = "serving" /\ main.DB = "open" /\ main' = main)
       /\ main'.migrateCalls # main.migrateCalls
          => (main.pc = "AutoMigrate" /\ main.initDB /\ resp = NoResponse)]_vars

\* the database could not be opened and the process has ended, having
\* answered no request
C9_Witness ==
    /\ main.pc = "exited" /\ main.DB = "failed" /\ main.openCalls = 1
    /\ resp = NoResponse

\* C10: once DeleteBook has answered 200 for X, row X is deleted and stays
\* deleted, whatever requests run in parallel with the delete
C10_DeleteSticks == \A id \in deleted200 : ~Live(rows, id)

====
